---- MODULE Spec2Model ----
(***************************************************************************)
(* Model of systematic_trading/datasets/knowledge_graph/stocks.py: the     *)
(* Stocks knowledge-graph pipeline.  Four checkpointed stages              *)
(* (__download, __add_wikipedia_title, __add_wikipedia_page,               *)
(* __add_relationships) are run in order by set_dataset_df; each one       *)
(* returns at once when its output file exists.                            *)
(*                                                                         *)
(* Strings are sequences of one-character strings (a few multi-character   *)
(* tokens stand for fixed substrings), so that split, replace, the         *)
(* category regular expression, json.dumps and the CSV codec are computed. *)
(* A DataFrame is a sequence of rows, a row a function from column name to *)
(* cell; the row at position i+1 has pandas index i.                       *)
(***************************************************************************)
EXTENDS Integers, Sequences, FiniteSets, TLC

\* ------------------------------------------------------------- bounds
\* Ticker symbols are 1..MaxSym (ordered as the tickers sort).
MaxSym == 8
\* Number of times the operator starts the process (set_dataset_df).
MaxRuns == 2
\* Longest page text of the category-extraction specification.
MaxText == 6

\* ---------------------------------------------------------- constants
\* "if index < 6: continue"
Skip == 6

\* ------------------------------------------------------------ strings
EMPTY == <<>>
\* The float nan pandas puts in an empty cell; not a string of the program.
NaN == <<"<NaN>">>
\* One of read_csv's default na_values besides the empty string.
NA_TEXT == <<"N", "A">>
NaValues == {EMPTY, NA_TEXT}

Digits == <<"1", "2", "3", "4", "5", "6", "7", "8", "9">>
Digit(n) == IF n \in 1..Len(Digits) THEN Digits[n] ELSE "#"

RECURSIVE ReplaceChar(_, _, _)
\* str.replace(old, new) for a one-character old and new
ReplaceChar(s, old, new) ==
    IF s = <<>> THEN <<>>
    ELSE <<IF Head(s) = old THEN new ELSE Head(s)>> \o ReplaceChar(Tail(s), old, new)

RECURSIVE LastSegment(_, _)
\* s.split(sep)[-1]: what follows the last sep (all of s when there is none)
LastSegment(s, sep) ==
    IF s = <<>> THEN <<>>
    ELSE IF s[Len(s)] = sep THEN <<>>
    ELSE Append(LastSegment(SubSeq(s, 1, Len(s) - 1), sep), s[Len(s)])

\* ------------------------------------------------------------- tables
RawColumns == {"symbol", "security", "country", "gics_sector", "gics_sub_industry"}
TitleColumns == RawColumns \cup {"wikipedia_title"}
PageColumns == TitleColumns \cup {"wikipedia_page"}
AllColumns == PageColumns \cup {"categories"}
\* KnowledgeGraph.expected_columns: the record of the data model
ExpectedColumns == AllColumns

\* df.loc[:, col] = value   (adds the column when it is missing)
SetColumn(tbl, col, value) ==
    [i \in 1..Len(tbl) |->
        [c \in (DOMAIN tbl[i]) \cup {col} |-> IF c = col THEN value ELSE tbl[i][c]]]

\* df.loc[index, col] = value
SetCell(tbl, index, col, value) ==
    [tbl EXCEPT ![index + 1] = [@ EXCEPT ![col] = value]]

\* df[columns]
Project(tbl, columns) ==
    [i \in 1..Len(tbl) |-> [c \in columns |-> tbl[i][c]]]

\* The symbol column holds tickers (numbers here); every other cell is text.
IsText(c) == c # "symbol"

\* df.fillna("")
FillNa(tbl) ==
    [i \in 1..Len(tbl) |->
        [c \in DOMAIN tbl[i] |->
            IF IsText(c) /\ tbl[i][c] = NaN THEN EMPTY ELSE tbl[i][c]]]

\* ----------------------------------------------------------- __save / __load
\* DataFrame.to_csv(path, index=False): nan is written as the empty field.
CsvSave(tbl) ==
    [i \in 1..Len(tbl) |->
        [c \in DOMAIN tbl[i] |->
            IF IsText(c) /\ tbl[i][c] = NaN THEN EMPTY ELSE tbl[i][c]]]

\* pd.read_csv(path): a field that is one of na_values is read as nan.
CsvLoad(rows) ==
    [i \in 1..Len(rows) |->
        [c \in DOMAIN rows[i] |->
            IF IsText(c) /\ rows[i][c] \in NaValues THEN NaN ELSE rows[i][c]]]

\* to_pickle / read_pickle keep every value as it is.
PklSave(tbl) == tbl
PklLoad(rows) == rows

FileNames == {"stocks.raw.csv", "stocks.title.csv", "stocks.page.pkl", "stocks.csv"}
Absent == [exists |-> FALSE, rows |-> <<>>]
File(rows) == [exists |-> TRUE, rows |-> rows]

IsCsv(path) == path \in {"stocks.raw.csv", "stocks.title.csv", "stocks.csv"}
\* __save(path): the file's content after saving tbl
Save(path, tbl) == File(IF IsCsv(path) THEN CsvSave(tbl) ELSE PklSave(tbl))
\* __load(path): the table read from the file's content
Load(path, file) == IF IsCsv(path) THEN CsvLoad(file.rows) ELSE PklLoad(file.rows)

\* ------------------------------------------------------------- state
VARIABLES
    fs,             \* data/: file name -> [exists, rows]
    df,             \* self.dataset_df of the running process (None: <<>>)
    pc,             \* where the process is: idle, download, title, loop, page, rel, done
    idx,            \* the title loop's position: pandas index of the next row
    runs,           \* how many times the process was started
    called,         \* collaborators called by the current run
    searched,       \* pandas indexes the current run issued a search for, in order
    visited,        \* pandas indexes the current run's title loop has iterated over
    noMatch,        \* rows whose search found no anchor, in the last run of the title loop
    unvisited,      \* rows the title loop had not reached when the last run was interrupted
    prev,           \* noMatch, unvisited and the title file as the previous run left them
    aborted,        \* the stage a collaborator exception aborted in the current run
    fetchedA,       \* what __download_nasdaq returned
    fetchedB,       \* what __download_sp500 returned
    pages           \* what select_pages returned

vars == <<fs, df, pc, idx, runs, called, searched, visited, noMatch, unvisited,
          prev, aborted, fetchedA, fetchedB, pages>>

None == <<>>

\* A slip: the checkpoint test forgotten
OutputExistsNever(path) == FALSE

\* os.path.exists(path_tgt)
OutputExists(path) == fs[path].exists

\* ----------------------------------------------------------- fetchers
US == <<"United States">>

\* A row of __download_nasdaq's result: the name is the listing's name with
\* the suffixes stripped; alt marks a second listing of the same symbol.
RowA(s, alt, name) ==
    [symbol |-> s,
     security |-> name,
     country |-> IF alt THEN <<"C", "N">> ELSE <<"U", "S">>,
     gics_sector |-> <<"T">>,
     gics_sub_industry |-> IF alt THEN <<"u">> ELSE <<"t">>]

NameA(s, alt) == IF alt THEN <<"A", Digit(s), "'">> ELSE <<"A", Digit(s)>>

\* A row of __download_sp500's result, country stamped "United States"
RowB(s) ==
    [symbol |-> s,
     security |-> <<"B", Digit(s)>>,
     gics_sector |-> <<"F">>,
     gics_sub_industry |-> <<"f">>,
     country |-> US]

\* The NASDAQ screener's answers: symbols hi..1 (not sorted); variant "dup" lists
\* symbol hi a second time under another name, variant "na" has a company
\* whose stripped name is "NA".
ListA(hi, variant) ==
    [k \in 1..hi |->
        LET s == hi + 1 - k
        IN  RowA(s, FALSE, IF variant = "na" /\ s = 1 THEN NA_TEXT ELSE NameA(s, FALSE))]
    \o (IF variant = "dup" THEN <<RowA(hi, TRUE, NameA(hi, TRUE))>> ELSE <<>>)

NasdaqListings == {ListA(3, "plain"), ListA(4, "dup"), ListA(4, "na")}

\* The S&P 500 dataset's answers: symbols lo..hi.
ListB(lo, hi) == [k \in 1..(hi - lo + 1) |-> RowB(lo + k - 1)]

Sp500Listings == {ListB(3, MaxSym), ListB(4, MaxSym - 1), ListB(4, 5)}

\* ---------------------------------------------------------- __download
\* pd.concat([a, b]): rows of a then rows of b, a missing column read as nan
Concat(a, b) ==
    LET cat == a \o b
        cols == UNION {DOMAIN cat[i] : i \in 1..Len(cat)}
    IN  [i \in 1..Len(cat) |->
            [c \in cols |-> IF c \in DOMAIN cat[i] THEN cat[i][c] ELSE NaN]]

RECURSIVE DropLast(_, _)
DropLast(tbl, seen) ==
    IF tbl = <<>> THEN <<>>
    ELSE LET r == tbl[Len(tbl)]
             rest == SubSeq(tbl, 1, Len(tbl) - 1)
         IN  IF r["symbol"] \in seen THEN DropLast(rest, seen)
             ELSE Append(DropLast(rest, seen \cup {r["symbol"]}), r)

RECURSIVE DropFirst(_, _)
DropFirst(tbl, seen) ==
    IF tbl = <<>> THEN <<>>
    ELSE IF Head(tbl)["symbol"] \in seen THEN DropFirst(Tail(tbl), seen)
    ELSE <<Head(tbl)>> \o DropFirst(Tail(tbl), seen \cup {Head(tbl)["symbol"]})

\* A slip: keep="last"
DropDuplicatesKeepLast(tbl) == DropLast(tbl, {})

\* df.drop_duplicates(subset=["symbol"], keep="first")
DropDuplicates(tbl) == DropFirst(tbl, {})

RECURSIVE Insert(_, _)
Insert(sorted, r) ==
    IF sorted = <<>> THEN <<r>>
    ELSE IF r["symbol"] < Head(sorted)["symbol"] THEN <<r>> \o sorted
    ELSE <<Head(sorted)>> \o Insert(Tail(sorted), r)

RECURSIVE SortValues(_)
\* df.sort_values(by=["symbol"]) then reset_index(drop=True)
SortValues(tbl) ==
    IF tbl = <<>> THEN <<>>
    ELSE Insert(SortValues(SubSeq(tbl, 1, Len(tbl) - 1)), tbl[Len(tbl)])

Merged(a, b) == SortValues(DropDuplicates(Concat(a, b)))

\* Stocks.__download, as set_dataset_df calls it: "self.dataset_df =
\* self.__download()" leaves dataset_df None, whichever way it returns.
Download ==
    /\ pc = "download"
    /\ IF OutputExists("stocks.raw.csv")
       THEN UNCHANGED <<fs, called, fetchedA, fetchedB>>
       ELSE \E a \in NasdaqListings, b \in Sp500Listings :
                /\ fetchedA' = a
                /\ fetchedB' = b
                /\ called' = called \cup {"nasdaq", "sp500"}
                /\ fs' = [fs EXCEPT !["stocks.raw.csv"] =
                                        Save("stocks.raw.csv", Merged(a, b))]
    /\ df' = None
    /\ pc' = "title"
    /\ UNCHANGED <<idx, runs, searched, visited, noMatch, unvisited, prev, aborted,
                   pages>>

\* A fetcher raises (network error, unexpected JSON): the exception leaves
\* __download before __save and ends the process.
DownloadRaises ==
    /\ pc = "download"
    /\ ~OutputExists("stocks.raw.csv")
    /\ called' = called \cup {"nasdaq"}
    /\ aborted' = "download"
    /\ pc' = "idle"
    /\ df' = None
    /\ UNCHANGED <<fs, idx, runs, searched, visited, noMatch, unvisited, prev,
                   fetchedA, fetchedB, pages>>

\* ----------------------------------------------- __add_wikipedia_title
WikiPrefix == <<"https:", "/", "/", "en.wikipedia.org", "/">>

\* Link targets the search page can show under an anchor "Wikipedia"
Hrefs ==
    {WikiPrefix \o <<"wiki", "/", "A", "_", "I">>,
     WikiPrefix \o <<"wiki", "/", "M">>,
     WikiPrefix}

\* hrefs: the matching anchors of one search page, in page order
SearchResults ==
    {<<>>} \cup {<<h>> : h \in Hrefs}
           \cup {<<WikiPrefix \o <<"wiki", "/", "M">>, WikiPrefix>>}

\* href.split("/")[-1].replace("_", " ")
WikipediaName(href) == ReplaceChar(LastSegment(href, "/"), "_", " ")

\* A slip: the warm-up offset forgotten
SkipRowNoOffset(index, row) == row["wikipedia_title"] # EMPTY

\* "if index < 6: continue" and "if row["wikipedia_title"]: continue"
SkipRow(index, row) == index < Skip \/ row["wikipedia_title"] # EMPTY

\* A slip: the table is saved only when the loop has ended
StoreTitleNoSave(tbl, files) == files

\* "self.__save(path=path_tgt)" inside the loop: data/ after the save of tbl
StoreTitle(tbl, files) ==
    [files EXCEPT !["stocks.title.csv"] = Save("stocks.title.csv", tbl)]

\* The stage up to the loop: the checkpoint, the load of the raw table, the
\* empty title column, the browser session and the operator's confirmation.
AddWikipediaTitle ==
    /\ pc = "title"
    /\ IF OutputExists("stocks.title.csv")
       THEN /\ pc' = "page"
            /\ UNCHANGED <<df, idx, called>>
       ELSE /\ df' = SetColumn(FillNa(Load("stocks.raw.csv", fs["stocks.raw.csv"])),
                               "wikipedia_title", EMPTY)
            /\ called' = called \cup {"browser"}
            /\ idx' = 0
            /\ pc' = "loop"
    /\ UNCHANGED <<fs, runs, searched, visited, noMatch, unvisited, prev, aborted,
                   fetchedA, fetchedB, pages>>

\* The driver cannot be installed or started: nothing was written.
TitleRaises ==
    /\ pc = "title"
    /\ ~OutputExists("stocks.title.csv")
    /\ called' = called \cup {"browser"}
    /\ aborted' = "title"
    /\ pc' = "idle"
    /\ df' = None
    /\ UNCHANGED <<fs, idx, runs, searched, visited, noMatch, unvisited, prev,
                   fetchedA, fetchedB, pages>>

\* One iteration of the loop over iterrows().  The row of an index is assigned
\* only in that index's own iteration, so the row iterrows yields equals the
\* table's.
TitleRow ==
    /\ pc = "loop"
    /\ idx < Len(df)
    /\ LET row == df[idx + 1]
       IN  IF SkipRow(idx, row)
           THEN UNCHANGED <<df, fs, searched, noMatch, called>>
           ELSE \E hrefs \in SearchResults :
                    /\ searched' = Append(searched, idx)
                    /\ called' = called \cup {"search"}
                    /\ IF Len(hrefs) = 0
                       THEN /\ noMatch' = noMatch \cup {idx}
                            /\ UNCHANGED <<df, fs>>
                       ELSE LET tbl == SetCell(df, idx, "wikipedia_title",
                                               WikipediaName(hrefs[1]))
                            IN  /\ df' = tbl
                                /\ fs' = StoreTitle(tbl, fs)
                                /\ noMatch' = noMatch
    /\ visited' = visited \cup {idx}
    /\ idx' = idx + 1
    /\ UNCHANGED <<pc, runs, unvisited, prev, aborted, fetchedA, fetchedB, pages>>

\* driver.get or find_element raises while a row is searched.
TitleRowRaises ==
    /\ pc = "loop"
    /\ idx < Len(df)
    /\ ~SkipRow(idx, df[idx + 1])
    /\ searched' = Append(searched, idx)
    /\ called' = called \cup {"search"}
    /\ visited' = visited \cup {idx}
    /\ unvisited' = (idx + 1)..(Len(df) - 1)
    /\ aborted' = "title"
    /\ pc' = "idle"
    /\ df' = None
    /\ UNCHANGED <<fs, idx, runs, noMatch, prev, fetchedA, fetchedB, pages>>

\* The loop has ended: "self.__save(path=path_tgt)"
TitleEnd ==
    /\ pc = "loop"
    /\ idx = Len(df)
    /\ fs' = [fs EXCEPT !["stocks.title.csv"] = Save("stocks.title.csv", df)]
    /\ pc' = "page"
    /\ UNCHANGED <<df, idx, runs, called, searched, visited, noMatch, unvisited, prev,
                   aborted, fetchedA, fetchedB, pages>>

\* ------------------------------------------------ __add_wikipedia_page
\* "[[Category:" as one token; no other token holds any of its characters
\* but "[", so the pattern's prefix matches at this token only.
OPEN == "[[Category:"
NL == "\n"
QUOTE == "\""
BACKSLASH == "\\"

Range(f) == {f[i] : i \in DOMAIN f}

\* The encyclopedia dump the page-selection collaborator reads: the text of
\* each article by title
DumpText(title) ==
    IF title = <<"M">>
    THEN <<"x", "]", "]">>
    ELSE <<"x", OPEN, "T", "]", "]", " ", "f", " ", OPEN, "N", "]", "]", "y">>

\* Wikipedia().select_pages(titles): a mapping from title to page text for
\* the titles it finds; a nan among the titles is no title of any page.
SelectPages(titles) ==
    {[t \in found |-> DumpText(t)] : found \in SUBSET (Range(titles) \ {NaN})}

\* "if title == "" or title not in pages: continue"
RowSelected(title, pgs) == ~(title = EMPTY \/ title \notin DOMAIN pgs)

\* "row["wikipedia_page"] = pages[title]" on the row iterrows yields: the
\* table's row after it.  iterrows yields rows of DataFrame.values; whether
\* such a row is a view of the table's data or a copy depends on the pandas
\* version and on the columns' dtypes (isView).
RowPage(row, pgs, isView) ==
    IF RowSelected(row["wikipedia_title"], pgs) /\ isView
    THEN [row EXCEPT !["wikipedia_page"] = pgs[row["wikipedia_title"]]]
    ELSE row

AssignPages(tbl, pgs, isView) ==
    [i \in 1..Len(tbl) |-> RowPage(tbl[i], pgs, isView)]

Column(tbl, col) == [i \in 1..Len(tbl) |-> tbl[i][col]]

AddWikipediaPage ==
    /\ pc = "page"
    /\ IF OutputExists("stocks.page.pkl")
       THEN UNCHANGED <<fs, df, called, pages>>
       ELSE LET loaded == Load("stocks.title.csv", fs["stocks.title.csv"])
            IN  \E pgs \in SelectPages(Column(loaded, "wikipedia_title")),
                   isView \in BOOLEAN :
                    LET tbl == AssignPages(SetColumn(loaded, "wikipedia_page", EMPTY),
                                           pgs, isView)
                    IN  /\ df' = tbl
                        /\ pages' = pgs
                        /\ called' = called \cup {"wikipedia"}
                        /\ fs' = [fs EXCEPT !["stocks.page.pkl"] =
                                                Save("stocks.page.pkl", tbl)]
    /\ pc' = "rel"
    /\ UNCHANGED <<idx, runs, searched, visited, noMatch, unvisited, prev, aborted,
                   fetchedA, fetchedB>>

\* A slip: the table saved before the pages are selected
PageRaisesAfterSave ==
    /\ pc = "page"
    /\ ~OutputExists("stocks.page.pkl")
    /\ called' = called \cup {"wikipedia"}
    /\ fs' = [fs EXCEPT !["stocks.page.pkl"] =
                 Save("stocks.page.pkl", Load("stocks.title.csv", fs["stocks.title.csv"]))]
    /\ aborted' = "page"
    /\ pc' = "idle"
    /\ df' = None
    /\ UNCHANGED <<idx, runs, searched, visited, noMatch, unvisited, prev,
                   fetchedA, fetchedB, pages>>

\* __load or select_pages raises: the exception leaves the stage before __save.
PageRaises ==
    /\ pc = "page"
    /\ ~OutputExists("stocks.page.pkl")
    /\ called' = called \cup {"wikipedia"}
    /\ aborted' = "page"
    /\ pc' = "idle"
    /\ df' = None
    /\ UNCHANGED <<fs, idx, runs, searched, visited, noMatch, unvisited, prev,
                   fetchedA, fetchedB, pages>>

\* ------------------------------------------------- __add_relationships
\* A slip: "(.*)\]\]", the longest group
GreedyMatch(rest, k) ==
    LET ends == {j \in k..(Len(rest) - 2) :
                    /\ rest[j + 1] = "]" /\ rest[j + 2] = "]"
                    /\ \A i \in 1..j : rest[i] # NL}
    IN  IF ends = {} THEN -1 ELSE CHOOSE j \in ends : \A o \in ends : o <= j

RECURSIVE LazyMatch(_, _)
\* "(.*?)\]\]" tried on rest with k characters in the group: the length of
\* the group when the pattern matches, -1 when it does not.  "." is any
\* character but the newline.
LazyMatch(rest, k) ==
    IF k + 2 <= Len(rest) /\ rest[k + 1] = "]" /\ rest[k + 2] = "]" THEN k
    ELSE IF k + 1 <= Len(rest) /\ rest[k + 1] # NL THEN LazyMatch(rest, k + 1)
    ELSE -1

RECURSIVE FindAll(_)
\* re.findall(r"\[\[Category:(.*?)\]\]", text): the groups of the matches,
\* scanning from the left, each match starting after the one before
FindAll(text) ==
    IF text = <<>> THEN <<>>
    ELSE IF Head(text) = OPEN
         THEN LET rest == Tail(text)
                  k == LazyMatch(rest, 0)
              IN  IF k >= 0
                  THEN <<SubSeq(rest, 1, k)>> \o FindAll(SubSeq(rest, k + 3, Len(rest)))
                  ELSE FindAll(rest)
         ELSE FindAll(Tail(text))

\* json's escape of one character of a str
JsonEscape(c) ==
    IF c = QUOTE THEN <<BACKSLASH, QUOTE>>
    ELSE IF c = BACKSLASH THEN <<BACKSLASH, BACKSLASH>>
    ELSE IF c = NL THEN <<BACKSLASH, "n">>
    ELSE <<c>>

RECURSIVE JsonString(_)
JsonString(str) ==
    IF str = <<>> THEN <<>> ELSE JsonEscape(Head(str)) \o JsonString(Tail(str))

RECURSIVE JsonItems(_)
JsonItems(list) ==
    IF list = <<>> THEN <<>>
    ELSE <<QUOTE>> \o JsonString(Head(list)) \o <<QUOTE>>
         \o (IF Len(list) > 1 THEN <<",", " ">> ELSE <<>>) \o JsonItems(Tail(list))

\* json.dumps(list of str)
JsonDumps(list) == <<"[">> \o JsonItems(list) \o <<"]">>

\* The categories cell of a row with page text `text`
Categories(text) ==
    IF text = EMPTY THEN EMPTY ELSE JsonDumps(FindAll(text))

AddRelationships ==
    /\ pc = "rel"
    /\ IF OutputExists("stocks.csv")
       THEN UNCHANGED <<fs, df>>
       ELSE LET loaded == SetColumn(Load("stocks.page.pkl", fs["stocks.page.pkl"]),
                                    "categories", EMPTY)
                tagged == [i \in 1..Len(loaded) |->
                              [loaded[i] EXCEPT !["categories"] =
                                   Categories(loaded[i]["wikipedia_page"])]]
                tbl == Project(tagged, ExpectedColumns)
            IN  /\ df' = tbl
                /\ fs' = [fs EXCEPT !["stocks.csv"] = Save("stocks.csv", tbl)]
    /\ pc' = "done"
    /\ UNCHANGED <<idx, runs, called, searched, visited, noMatch, unvisited, prev,
                   aborted, fetchedA, fetchedB, pages>>

\* __load raises (the pickle cannot be read): nothing was written.
RelRaises ==
    /\ pc = "rel"
    /\ ~OutputExists("stocks.csv")
    /\ aborted' = "rel"
    /\ pc' = "idle"
    /\ df' = None
    /\ UNCHANGED <<fs, idx, runs, called, searched, visited, noMatch, unvisited, prev,
                   fetchedA, fetchedB, pages>>

\* ------------------------------------------------------ the process
\* The operator starts the process: Stocks().set_dataset_df()
Start ==
    /\ pc \in {"idle", "done"}
    /\ runs < MaxRuns
    /\ runs' = runs + 1
    /\ pc' = "download"
    /\ df' = None
    /\ idx' = 0
    /\ called' = {}
    /\ searched' = <<>>
    /\ visited' = {}
    /\ noMatch' = {}
    /\ unvisited' = {}
    /\ prev' = [noMatch |-> noMatch, unvisited |-> unvisited,
                 title |-> fs["stocks.title.csv"]]
    /\ aborted' = "none"
    /\ UNCHANGED <<fs, fetchedA, fetchedB, pages>>

\* The process is interrupted (killed, Ctrl-C) in the title loop, where it
\* spends its time (60 s a row): the rows from idx on have not been visited.
\* In the other stages an interruption leaves what the stage's exception leaves.
Interrupt ==
    /\ pc = "loop"
    /\ unvisited' = idx..(Len(df) - 1)
    /\ pc' = "idle"
    /\ df' = None
    /\ UNCHANGED <<fs, idx, runs, called, searched, visited, noMatch, prev, aborted,
                   fetchedA, fetchedB, pages>>

Init ==
    /\ fs = [f \in FileNames |-> Absent]
    /\ df = None
    /\ pc = "idle"
    /\ idx = 0
    /\ runs = 0
    /\ called = {}
    /\ searched = <<>>
    /\ visited = {}
    /\ noMatch = {}
    /\ unvisited = {}
    /\ prev = [noMatch |-> {}, unvisited |-> {}, title |-> Absent]
    /\ aborted = "none"
    /\ fetchedA = <<>>
    /\ fetchedB = <<>>
    /\ pages = <<>>

Next ==
    \/ Start
    \/ Download
    \/ DownloadRaises
    \/ AddWikipediaTitle
    \/ TitleRaises
    \/ TitleRow
    \/ TitleRowRaises
    \/ TitleEnd
    \/ AddWikipediaPage
    \/ PageRaises
    \/ AddRelationships
    \/ RelRaises
    \/ Interrupt

Spec == Init /\ [][Next]_vars

\* ------------------------------------------- category extraction alone
\* Page texts: every string of at most MaxText characters over these, and
\* the texts of the dump
TextAlphabet == {OPEN, "]", "a", NL, QUOTE}

RECURSIVE TextsUpTo(_)
TextsUpTo(n) ==
    IF n = 0 THEN {<<>>}
    ELSE LET shorter == TextsUpTo(n - 1)
         IN  shorter \cup {Append(t, c) : t \in {u \in shorter : Len(u) = n - 1},
                                         c \in TextAlphabet}

\* The table __add_wikipedia_page leaves for two securities: the first with
\* the page `text` under title M, the second without a title.
PageTable(text) ==
    <<[symbol |-> 1, security |-> <<"A", "1">>, country |-> <<"U", "S">>,
       gics_sector |-> <<"T">>, gics_sub_industry |-> <<"t">>,
       wikipedia_title |-> <<"M">>, wikipedia_page |-> text],
      [symbol |-> 2, security |-> <<"B", "2">>, country |-> US,
       gics_sector |-> <<"F">>, gics_sub_industry |-> <<"f">>,
       wikipedia_title |-> NaN, wikipedia_page |-> EMPTY]>>

\* The process about to run __add_relationships on any such table
InitCat ==
    \E text \in TextsUpTo(MaxText) \cup {DumpText(<<"M">>), DumpText(<<"A", " ", "I">>)} :
        /\ fs = [f \in FileNames |->
                    IF f = "stocks.raw.csv"
                    THEN Save(f, Project(PageTable(text), RawColumns))
                    ELSE IF f = "stocks.title.csv"
                    THEN Save(f, Project(PageTable(text), TitleColumns))
                    ELSE IF f = "stocks.page.pkl"
                    THEN Save(f, PageTable(text))
                    ELSE Absent]
        /\ df = PageTable(text)
        /\ pc = "rel"
        /\ idx = 0
        /\ runs = 1
        /\ called = {"wikipedia"}
        /\ searched = <<>>
        /\ visited = {}
        /\ noMatch = {}
        /\ unvisited = {}
        /\ prev = [noMatch |-> {}, unvisited |-> {}, title |-> Absent]
        /\ aborted = "none"
        /\ fetchedA = <<>>
        /\ fetchedB = <<>>
        /\ pages = [t \in {<<"M">>} |-> text]

NextCat == AddRelationships

SpecCat == InitCat /\ [][NextCat]_vars

\* =============================================================== claims
StageNames == {"download", "title", "page", "rel"}

OutputOf(stage) ==
    IF stage = "download" THEN "stocks.raw.csv"
    ELSE IF stage = "title" THEN "stocks.title.csv"
    ELSE IF stage = "page" THEN "stocks.page.pkl"
    ELSE "stocks.csv"

\* A cell that holds something: neither the empty string nor nan
Filled(v) == v # EMPTY /\ v # NaN

TitleRows == fs["stocks.title.csv"].rows
PageRows == fs["stocks.page.pkl"].rows
FinalRows == fs["stocks.csv"].rows

\* C1: a stage invoked while its output file exists is a no-op: the four
\* files keep their existence and content, and no fetcher, browser, search or
\* page-selection collaborator is called.
C1_ExistingOutputIsNoOp ==
    [][\A st \in StageNames :
          (pc = st /\ fs[OutputOf(st)].exists)
              => (fs' = fs /\ called' = called /\ searched' = searched)]_vars

\* A second run that went through all four stages and called nothing
C1_Witness == pc = "done" /\ runs = 2 /\ called = {}

\* C2: a row at index >= 6 whose search found no anchor keeps an empty title,
\* and the next run of the pipeline searches it again.
C2_NoMatchRetriedNextRun ==
    /\ \A i \in noMatch :
          fs["stocks.title.csv"].exists => TitleRows[i + 1]["wikipedia_title"] = EMPTY
    /\ pc = "done" => prev.noMatch \subseteq Range(searched)

\* C3: after an interruption inside the title loop, the re-run keeps the
\* titles already persisted and visits every row the interrupted run had not
\* visited.
C3_ResumesAfterInterrupt ==
    pc = "done" =>
        /\ prev.title.exists =>
              \A i \in 1..Len(prev.title.rows) :
                  Filled(prev.title.rows[i]["wikipedia_title"]) =>
                      TitleRows[i]["wikipedia_title"] = prev.title.rows[i]["wikipedia_title"]
        /\ prev.unvisited \subseteq visited

\* C4: in the table persisted to stocks.page.pkl, a row whose title is
\* non-empty and a key of select_pages' mapping holds the mapping's text for
\* the title, and every other row holds the empty string.
C4_PagesAssigned ==
    fs["stocks.page.pkl"].exists =>
        \A i \in 1..Len(PageRows) :
            LET title == PageRows[i]["wikipedia_title"]
            IN  IF Filled(title) /\ title \in DOMAIN pages
                THEN PageRows[i]["wikipedia_page"] = pages[title]
                ELSE PageRows[i]["wikipedia_page"] = EMPTY

\* First place of symbol s in the concatenated fetcher outputs
FirstIndex(cat, s) ==
    CHOOSE k \in 1..Len(cat) :
        cat[k]["symbol"] = s /\ \A j \in 1..(k - 1) : cat[j]["symbol"] # s

RawRows == fs["stocks.raw.csv"].rows

\* C5: the persisted raw table has exactly one row for each symbol of the
\* NASDAQ output A or the S&P 500 output B, and the row's fields are those of
\* the symbol's first occurrence in A followed by B (in A, for a symbol of both).
C5_MergeKeepsFirstPerSymbol ==
    fs["stocks.raw.csv"].exists =>
        LET cat == fetchedA \o fetchedB
        IN  /\ \A i, j \in 1..Len(RawRows) :
                  i # j => RawRows[i]["symbol"] # RawRows[j]["symbol"]
            /\ {RawRows[i]["symbol"] : i \in 1..Len(RawRows)}
                   = {cat[k]["symbol"] : k \in 1..Len(cat)}
            /\ \A i \in 1..Len(RawRows) :
                  LET first == cat[FirstIndex(cat, RawRows[i]["symbol"])]
                  IN  \A c \in RawColumns : RawRows[i][c] = first[c]

\* A merge of outputs that share a symbol, A listing one symbol twice
C5_Witness ==
    /\ fs["stocks.raw.csv"].exists
    /\ \E i, j \in 1..Len(fetchedA) :
          i # j /\ fetchedA[i]["symbol"] = fetchedA[j]["symbol"]
    /\ \E i \in 1..Len(fetchedA), j \in 1..Len(fetchedB) :
          fetchedA[i]["symbol"] = fetchedB[j]["symbol"]

\* ---- decoding of a JSON array of strings, as json.loads reads it
JsonFail == [ok |-> FALSE, list |-> <<>>]

Unescape(c) == IF c = "n" THEN NL ELSE c

RECURSIVE ParseString(_, _)
\* s follows an opening quote; acc is the string decoded so far
ParseString(s, acc) ==
    IF s = <<>> THEN [ok |-> FALSE, str |-> acc, rest |-> <<>>]
    ELSE IF Head(s) = QUOTE THEN [ok |-> TRUE, str |-> acc, rest |-> Tail(s)]
    ELSE IF Head(s) = BACKSLASH
         THEN IF Len(s) < 2 THEN [ok |-> FALSE, str |-> acc, rest |-> <<>>]
              ELSE ParseString(SubSeq(s, 3, Len(s)), Append(acc, Unescape(s[2])))
         ELSE ParseString(Tail(s), Append(acc, Head(s)))

RECURSIVE ParseItems(_, _)
\* s starts at an item of the array; acc holds the items before it
ParseItems(s, acc) ==
    IF s = <<>> \/ Head(s) # QUOTE THEN JsonFail
    ELSE LET p == ParseString(Tail(s), <<>>)
         IN  IF ~p.ok THEN JsonFail
             ELSE IF p.rest = <<"]">> THEN [ok |-> TRUE, list |-> Append(acc, p.str)]
             ELSE IF Len(p.rest) >= 2 /\ p.rest[1] = "," /\ p.rest[2] = " "
                  THEN ParseItems(SubSeq(p.rest, 3, Len(p.rest)), Append(acc, p.str))
                  ELSE JsonFail

JsonLoads(s) ==
    IF s = <<"[", "]">> THEN [ok |-> TRUE, list |-> <<>>]
    ELSE IF s # <<>> /\ Head(s) = "[" THEN ParseItems(Tail(s), <<>>)
    ELSE JsonFail

\* ---- the occurrences of [[Category:<name>]] in a text
\* <<i, j>>: "[[Category:" at i, the first "]]" after it at j, j + 1, and a
\* name between them on one line.
Occurrences(text) ==
    {o \in (1..Len(text)) \X (1..Len(text)) :
        /\ text[o[1]] = OPEN
        /\ o[1] < o[2] /\ o[2] < Len(text)
        /\ text[o[2]] = "]" /\ text[o[2] + 1] = "]"
        /\ \A k \in (o[1] + 1)..(o[2] - 1) :
              text[k] # NL /\ ~(text[k] = "]" /\ text[k + 1] = "]")}

\* The occurrences taken from the left, none starting inside one taken before
NonOverlapping(text) ==
    CHOOSE S \in SUBSET Occurrences(text) :
        \A o \in Occurrences(text) :
            o \in S <=> ~\E e \in S : e[1] < o[1] /\ o[1] <= e[2] + 1

RECURSIVE InOrder(_, _)
\* The names of the occurrences S, by place
InOrder(text, S) ==
    IF S = {} THEN <<>>
    ELSE LET o == CHOOSE x \in S : \A y \in S : x[1] <= y[1]
         IN  <<SubSeq(text, o[1] + 1, o[2] - 1)>> \o InOrder(text, S \ {o})

CategoryNames(text) == InOrder(text, NonOverlapping(text))

\* C6: in the table __add_relationships persists, the categories of a row
\* with page text is a JSON array that decodes to the names of the
\* non-overlapping occurrences of [[Category:<name>]] in the text, in order;
\* the categories of a row without page text is the empty string, not "[]".
C6_CategoriesDecodeToNames ==
    (pc = "done" /\ fs["stocks.csv"].exists /\ fs["stocks.page.pkl"].exists) =>
        \A i \in 1..Len(PageRows) :
            LET text == PageRows[i]["wikipedia_page"]
                cats == FinalRows[i]["categories"]
            IN  IF text = EMPTY
                THEN cats = EMPTY /\ cats # <<"[", "]">>
                ELSE /\ JsonLoads(cats).ok
                     /\ JsonLoads(cats).list = CategoryNames(text)

\* The spec's example: two categories in one text come out in order, beside
\* a row without text
C6_Witness ==
    /\ pc = "done"
    /\ fs["stocks.csv"].exists
    /\ \E i, j \in 1..Len(FinalRows) :
          /\ PageRows[i]["wikipedia_page"] = DumpText(<<"A", " ", "I">>)
          /\ JsonLoads(FinalRows[i]["categories"]).list = <<<<"T">>, <<"N">>>>
          /\ PageRows[j]["wikipedia_page"] = EMPTY
          /\ FinalRows[j]["categories"] = EMPTY

\* C7: when a collaborator exception aborts the merge, the page-fetch or the
\* category-extraction stage, the stage's output file is absent after the
\* abort (so the next run finds no checkpoint and runs the stage again).
C7_AbortWritesNoOutput ==
    aborted \in {"download", "page", "rel"} => ~fs[OutputOf(aborted)].exists

\* The page stage aborted on top of a title file; a title stage that aborted
\* leaves its file behind in other runs
C7_Witness ==
    /\ aborted = "page"
    /\ pc = "idle"
    /\ fs["stocks.title.csv"].exists

\* C8: fields fill left to right and no stage regresses a filled field: once
\* a row's field is non-empty in a persisted file, no later write of any
\* stage file holds the row with that field empty or different.
C8_NoFieldRegresses ==
    [][\A f, g \in FileNames :
          (fs[f].exists /\ fs'[g] # fs[g]) =>
              /\ \A i \in 1..Len(fs[f].rows) :
                    \A c \in DOMAIN fs[f].rows[i] :
                        (IsText(c) => Filled(fs[f].rows[i][c])) =>
                            /\ i <= Len(fs'[g].rows)
                            /\ c \in DOMAIN fs'[g].rows[i]
                            /\ fs'[g].rows[i][c] = fs[f].rows[i][c]
              /\ \A i \in 1..Len(fs'[g].rows) :
                    LET r == fs'[g].rows[i]
                    IN  /\ ("wikipedia_page" \in DOMAIN r /\ Filled(r["wikipedia_page"]))
                              => Filled(r["wikipedia_title"])
                        /\ ("categories" \in DOMAIN r /\ Filled(r["categories"]))
                              => Filled(r["wikipedia_page"])]_vars

\* C9: between two iterations of the title loop the title file holds every
\* title resolved so far in the run.
C9_ResolvedTitlesOnDisk ==
    pc = "loop" =>
        \A i \in 1..Len(df) :
            df[i]["wikipedia_title"] # EMPTY =>
                /\ fs["stocks.title.csv"].exists
                /\ i <= Len(TitleRows)
                /\ TitleRows[i]["wikipedia_title"] = df[i]["wikipedia_title"]

\* Two titles resolved and rows left to visit
C9_Witness ==
    /\ pc = "loop"
    /\ Cardinality({i \in 1..Len(df) : df[i]["wikipedia_title"] # EMPTY}) >= 2

\* C10: the title loop visits the rows in index order; it issues no search
\* for the rows 0..5 nor for a row whose title is filled; the first six rows
\* of every table it persists have an empty title.
C10_SkipsFirstSixAndFilled ==
    /\ \A k \in 1..Len(searched) : searched[k] >= Skip
    /\ \A k \in 1..(Len(searched) - 1) : searched[k] < searched[k + 1]
    /\ pc = "loop" =>
          /\ visited = 0..(idx - 1)
          /\ \A i \in 1..Len(df) :
                df[i]["wikipedia_title"] # EMPTY => (i - 1) \in Range(searched)
    /\ fs["stocks.title.csv"].exists =>
          \A i \in 1..Len(TitleRows) :
              i <= Skip => TitleRows[i]["wikipedia_title"] = EMPTY

\* The loop went past the sixth row, searched two rows and persisted a table
C10_Witness ==
    /\ pc = "loop"
    /\ Len(searched) = 2
    /\ fs["stocks.title.csv"].exists
    /\ \E i \in 1..Len(TitleRows) : TitleRows[i]["wikipedia_title"] # EMPTY

====
